---- MODULE Spec2Model ----
(***************************************************************************)
(* A model of the Clem Discord bot (src/clem.py, the MeiliSearch version): *)
(* the karma extractor, the karma ledger, the per-channel settings, the    *)
(* on_message handler with its suspension points, and the administrative   *)
(* commands.                                                               *)
(*                                                                         *)
(* Message text is a sequence of tokens.  A token is either a single       *)
(* character that the handler's regular expressions look at ("+", "-",     *)
(* " ") or a unit none of them can split: a mention token "<@1>", a word,  *)
(* a link.                                                                 *)
(***************************************************************************)
EXTENDS Integers, Sequences, FiniteSets, TLC

\* ------------------------------------------------------------------ bounds
\* longest content the karma extractor is run on in SpecKarma
MaxLen == 6
\* number of message events the gateway delivers in one behaviour
MaxEvents == 2

\* ------------------------------------------------------- program constants
\* stop_after_attempt(3)
MaxAttempts == 3
\* get_channel_messages(channel_id, 100)
HistoryLimit == 100
\* class VerbosityLevel(IntEnum)
KARMA_ONLY == 1
MENTIONED == 2
UNRESTRICTED == 3

\* ------------------------------------------------------------------- users
\* ids of the accounts; BotId is bot.user
BotId == "0"
UserIds == {"1", "2"}
AllIds == {BotId} \cup UserIds

\* the two canonical forms <@id> and <@!id> that the pattern <@!?id> accepts
MentionTokens(id) == {"<@" \o id \o ">", "<@!" \o id \o ">"}

\* the class \s of the pattern
IsSpace(t) == t \in {" ", "\n"}

\* the class [+-] of the pattern
IsSign(t) == t \in {"+", "-"}

\* ------------------------------------------------------------ process_karma
\* first position >= p of content that is not whitespace (Len+1 if none): \s+ is greedy
RECURSIVE SkipSpace(_, _)
SkipSpace(content, p) ==
    IF p <= Len(content) /\ IsSpace(content[p]) THEN SkipSpace(content, p + 1) ELSE p

\* first position >= p of content that is not a sign: ([+-]+) is greedy
RECURSIVE SkipSigns(_, _)
SkipSigns(content, p) ==
    IF p <= Len(content) /\ IsSign(content[p]) THEN SkipSigns(content, p + 1) ELSE p

\* re.findall(rf"<@!?{id}>\s+([+-]+)", content) from position p on: the captured
\* groups of the non-overlapping matches, left to right
RECURSIVE FindAll(_, _, _)
FindAll(content, id, p) ==
    IF p > Len(content) THEN <<>>
    ELSE LET s == SkipSpace(content, p + 1)
             e == SkipSigns(content, s)
         IN IF content[p] \in MentionTokens(id) /\ s > p + 1 /\ e > s
            THEN <<SubSeq(content, s, e - 1)>> \o FindAll(content, id, e)
            ELSE FindAll(content, id, p + 1)

\* change = len(match) // 2, negated when match[0] == "-"
MatchChange(match) ==
    LET change == Len(match) \div 2
    IN IF match[1] = "-" THEN -change ELSE change

\* the inner loop: karma_changes.get(mention, 0) + change over the matches
RECURSIVE SumChanges(_)
SumChanges(matches) ==
    IF matches = <<>> THEN 0
    ELSE MatchChange(Head(matches)) + SumChanges(Tail(matches))

\* the ids of a sequence of mentions
Range(s) == {s[i] : i \in DOMAIN s}

\* process_karma leaving out the users whose changes add up to 0
process_karmaMutDropZero(content, mentions) ==
    LET keys == {id \in Range(mentions) :
                    /\ FindAll(content, id, 1) # <<>>
                    /\ SumChanges(FindAll(content, id, 1)) # 0}
    IN [id \in keys |-> SumChanges(FindAll(content, id, 1))]

\* process_karma(content, mentions): the dict karma_changes, as a function whose
\* domain is the set of keys
process_karma(content, mentions) ==
    LET keys == {id \in Range(mentions) : FindAll(content, id, 1) # <<>>}
    IN [id \in keys |-> SumChanges(FindAll(content, id, 1))]

\* --------------------------------------------------------------- variables
VARIABLES
    karma_index,      \* the ocai_karma index: user id -> karma, for the ids with a document
    channels_index,   \* the ocai_channels index: channel id -> settings document
    messages_index,   \* the ocai_messages index: the stored documents, oldest first
    h,                \* per on_message invocation: its position and its locals
    events,           \* number of message events delivered so far
    applied,          \* history: user id -> sum of the changes passed to update_user_karma
    pk                \* process_karma on its own: content, mentions, returned dict

vars == <<karma_index, channels_index, messages_index, h, events, applied, pk>>

\* the empty dict
EmptyDict == <<>>

\* --------------------------------------------- process_karma on its own
PkTokens == {"<@1>", "<@!2>", " ", "+", "-"}
PkContents == UNION {[1..n -> PkTokens] : n \in 0..MaxLen}
PkMentions == {<<>>, <<"1">>, <<"2">>, <<"1", "2">>, <<"2", "1">>}

PkIdle == [content |-> <<>>, mentions |-> <<>>, result |-> EmptyDict, done |-> TRUE]

\* the call karma_changes = process_karma(message.content, message.mentions)
ExtractKarma ==
    /\ ~pk.done
    /\ pk' = [pk EXCEPT !.result = process_karma(pk.content, pk.mentions),
                        !.done = TRUE]
    /\ UNCHANGED <<karma_index, channels_index, messages_index, h, events, applied>>

\* ----------------------------------------------------------------- inputs
Channels == {"c1", "c2"}
\* "c1" is the text channel named "general" of the guild "Orange County AI"
GeneralChannel == "c1"

\* message.author.name / user.name
Name(id) == CASE id = "0" -> "Clem" [] id = "1" -> "alice" [] OTHER -> "bob"

\* the members holding the role "Clementine Council"
Council == {"1"}

\* str.lower() on one token
LowerToken(t) == CASE t = "HI" -> "hi" [] t = "CLEM" -> "clem" [] OTHER -> t

\* content.lower()
Lower(content) == [i \in DOMAIN content |-> LowerToken(content[i])]

\* the users a message mentions, each once, in the order of their first mention
\* token (message.mentions is filled by the gateway from the text)
RECURSIVE MentionsFrom(_, _, _)
MentionsFrom(content, p, seen) ==
    IF p > Len(content) THEN <<>>
    ELSE LET ids == {id \in AllIds : content[p] \in MentionTokens(id) /\ id \notin seen}
         IN IF ids = {} THEN MentionsFrom(content, p + 1, seen)
            ELSE LET id == CHOOSE x \in ids : TRUE
                 IN <<id>> \o MentionsFrom(content, p + 1, seen \cup {id})

Message(author, content, channel, type) ==
    [author |-> author, content |-> content, channel |-> channel, type |-> type,
     mentions |-> MentionsFrom(content, 1, {})]

\* what the language model and the summarizer can return
Responses == {<<"hi">>, <<"HI">>, <<"clem">>}

\* texts of ordinary messages
ChatContents ==
    { <<"hi">>, <<"CLEM">>, <<"<@0>", " ", "hi">>,
      <<"<@1>", " ", "-", "-">>,
      <<"<@0>", " ", "<@2>", " ", "+", "+", "+">>,
      <<"<@1>", " ", "+", "+", "+", "+", " ", "<@!2>", " ", "-", "-">>,
      <<"http://a.b">>, <<"youtu.be/v">> }

\* texts that invoke a command of the bot
CommandContents ==
    { <<"!toggle_clem">>, <<"!set_verbosity", " ", "1">>, <<"!set_verbosity", " ", "3">>,
      <<"!set_verbosity", " ", "5">>, <<"!reset_chat">>, <<"!message_count">> }

\* the message events the gateway may deliver
Events ==
    {Message("1", c, ch, "default") : c \in ChatContents \cup CommandContents, ch \in Channels}
    \cup {Message("2", c, "c1", "default") :
             c \in {<<"hi">>, <<"!toggle_clem">>, <<"!set_verbosity", " ", "1">>,
                    <<"!reset_chat">>, <<"!message_count">>}}
    \cup {Message("2", <<>>, ch, "new_member") : ch \in Channels}
    \cup {Message(BotId, c, ch, "default") : c \in Responses, ch \in Channels}

\* ------------------------------------------------------------ persistence
\* Python's None
NoneVal == [none |-> TRUE]

\* model=None (any falsy model is stored the same way)
NoModel == ""
\* MODEL = os.getenv("MODEL", "gpt-4.1-mini")
MODEL == "gpt-4.1-mini"

\* outcomes of the persistence calls of one step: TRUE where the call succeeds
FaultFields == {"r1", "r2", "r3", "kr", "kw", "sw", "hr", "cr", "ur", "uw", "dw"}
AllOk == [f \in FaultFields |-> TRUE]
\* every combination of failures of the calls named in fields
FaultsOn(fields) == {[f \in FaultFields |-> f \notin bad] : bad \in SUBSET fields}

\* get_user_karma(user_id): the karma of the hit, 0 without a hit or on an error
get_user_karma(idx, user_id, ok) ==
    IF ok /\ user_id \in DOMAIN idx THEN idx[user_id] ELSE 0

\* add_documents([doc]) on an index keyed by id: insert or replace
Upsert(idx, key, doc) ==
    [k \in DOMAIN idx \cup {key} |-> IF k = key THEN doc ELSE idx[k]]

\* update_user_karma storing the change in place of the new total
update_user_karmaMutOverwrite(idx, user_id, change, rd, wr) ==
    LET current_karma == get_user_karma(idx, user_id, rd)
        new_karma == change
    IN IF wr THEN <<Upsert(idx, user_id, new_karma), new_karma>>
       ELSE <<idx, current_karma>>

\* update_user_karma(user_id, change): <<index afterwards, returned total>>
update_user_karma(idx, user_id, change, rd, wr) ==
    LET current_karma == get_user_karma(idx, user_id, rd)
        new_karma == current_karma + change
    IN IF wr THEN <<Upsert(idx, user_id, new_karma), new_karma>>
       ELSE <<idx, current_karma>>

\* get_channel_config(channel_id): the hit, None without a hit or on an error
get_channel_config(idx, channel_id, ok) ==
    IF ok /\ channel_id \in DOMAIN idx THEN idx[channel_id] ELSE NoneVal

\* update_channel_config(channel_id, disabled=None, verbosity_level=None): the index
\* afterwards; given holds the keyword arguments that are not None
update_channel_config(idx, channel_id, given, rd, wr) ==
    LET current_config == get_channel_config(idx, channel_id, rd)
        doc == [disabled |->
                    IF "disabled" \in DOMAIN given THEN given.disabled
                    ELSE IF current_config # NoneVal THEN current_config.disabled
                    ELSE FALSE,
                verbosity_level |->
                    IF "verbosity_level" \in DOMAIN given THEN given.verbosity_level
                    ELSE IF current_config # NoneVal THEN current_config.verbosity_level
                    ELSE MENTIONED]
    IN IF wr THEN Upsert(idx, channel_id, doc) ELSE idx

\* int(timestamp.timestamp()) of the newest stored document, 0 for an empty index
NewestTimestamp(idx) ==
    IF idx = <<>> THEN 0
    ELSE CHOOSE t \in {idx[k].timestamp : k \in DOMAIN idx} :
            \A k \in DOMAIN idx : idx[k].timestamp <= t

\* store_message adding the field model whatever its value
store_messageMutAlwaysModel(idx, author, content, channel_id, model, timestamp, ok) ==
    LET doc == [author |-> author, content |-> content, channel_id |-> channel_id,
                timestamp |-> timestamp, model |-> model]
    IN IF ok THEN Append(idx, doc) ELSE idx

\* store_message(author, content, channel_id, model): the index afterwards; timestamp
\* is int(datetime.now(UTC).timestamp()), the clock in whole seconds; the field
\* model is present only when model is truthy
store_message(idx, author, content, channel_id, model, timestamp, ok) ==
    LET base == [author |-> author, content |-> content, channel_id |-> channel_id,
                 timestamp |-> timestamp]
        doc == IF model # NoModel
               THEN [f \in DOMAIN base \cup {"model"} |->
                        IF f = "model" THEN model ELSE base[f]]
               ELSE base
    IN IF ok THEN Append(idx, doc) ELSE idx

\* the last n elements of a sequence
LastN(s, n) == IF Len(s) <= n THEN s ELSE SubSeq(s, Len(s) - n + 1, Len(s))

\* the first n elements of a sequence
FirstN(s, n) == IF Len(s) <= n THEN s ELSE SubSeq(s, 1, n)

\* reversed(s)
Reverse(s) == [k \in DOMAIN s |-> s[Len(s) + 1 - k]]

\* the documents of a channel, in the order they were stored
ChannelDocs(idx, channel_id) == SelectSeq(idx, LAMBDA d : d.channel_id = channel_id)

\* "sort": ["timestamp:desc"] over the documents docs[k], k \in at: every order with
\* non-increasing timestamps; the order of documents of one second is the engine's
RECURSIVE SortDesc(_, _)
SortDesc(docs, at) ==
    IF at = {} THEN {<<>>}
    ELSE UNION { {<<docs[k]>> \o rest : rest \in SortDesc(docs, at \ {k})} :
                 k \in {k \in at : \A j \in at : docs[j].timestamp <= docs[k].timestamp} }

\* get_channel_messages(channel_id, limit): the lists the call may return: the first
\* limit hits of the sorted search, reversed; [] on an error
get_channel_messages(idx, channel_id, limit, ok) ==
    IF ok
    THEN LET docs == ChannelDocs(idx, channel_id)
         IN {Reverse(FirstN(hits, limit)) : hits \in SortDesc(docs, DOMAIN docs)}
    ELSE {<<>>}

\* "limit": 10000 of the search in delete_channel_messages
DeleteLimit == 10000

\* delete_channel_messages deleting the documents of every channel
delete_channel_messagesMutAll(idx, channel_id, ok) ==
    IF ok THEN <<SelectSeq(idx, LAMBDA d : FALSE), TRUE>> ELSE <<idx, FALSE>>

\* delete_channel_messages(channel_id): <<index afterwards, success>>; the documents
\* deleted are the hits of the search, at most DeleteLimit of the channel
delete_channel_messages(idx, channel_id, ok) ==
    LET hits == {k \in DOMAIN idx :
                    /\ idx[k].channel_id = channel_id
                    /\ Len(ChannelDocs(SubSeq(idx, 1, k), channel_id)) <= DeleteLimit}
        Keep[k \in 0..Len(idx)] ==
            IF k = 0 THEN <<>>
            ELSE IF k \notin hits THEN Append(Keep[k - 1], idx[k]) ELSE Keep[k - 1]
    IN IF ok THEN <<Keep[Len(idx)], TRUE>> ELSE <<idx, FALSE>>

\* -------------------------------------------------------- channel policy
\* clem_disabled never reporting a channel as disabled
clem_disabledMutNever(idx, channel_id, ok) == FALSE

\* clem_disabled(channel_id), as a truth value
clem_disabled(idx, channel_id, ok) ==
    LET channel == get_channel_config(idx, channel_id, ok)
    IN channel # NoneVal /\ channel.disabled

\* karma_only(channel_id), as a truth value
karma_only(idx, channel_id, ok) ==
    LET channel == get_channel_config(idx, channel_id, ok)
    IN channel # NoneVal /\ channel.verbosity_level = KARMA_ONLY

\* get_verbosity_level falling back to UNRESTRICTED without a settings document
get_verbosity_levelMutDefault(idx, channel_id, ok) ==
    LET channel == get_channel_config(idx, channel_id, ok)
    IN IF channel # NoneVal THEN channel.verbosity_level ELSE UNRESTRICTED

\* get_verbosity_level(channel_id)
get_verbosity_level(idx, channel_id, ok) ==
    LET channel == get_channel_config(idx, channel_id, ok)
    IN IF channel # NoneVal THEN channel.verbosity_level ELSE MENTIONED

\* -------------------------------------------------------------- on_message
\* extract_video_id(message.content) is not None: the text holds a YouTube link
extract_video_id(content) == \E p \in DOMAIN content : content[p] \in {"youtu.be/v"}

\* extract_url(message.content) is not None: the text holds an http(s) URL
extract_url(content) == \E p \in DOMAIN content : content[p] \in {"http://a.b"}

\* "clem" in message.content.lower()
ContainsClem(content) == \E p \in DOMAIN content : LowerToken(content[p]) = "clem"

\* bot.user.mentioned_in(message)
mentioned_in(m) == BotId \in Range(m.mentions)

\* the command a text invokes ("" if none): the prefix "!" and a registered name
CommandNames == {"!toggle_clem", "!set_verbosity", "!reset_chat", "!message_count"}
CommandOf(content) ==
    IF content # <<>> /\ content[1] \in CommandNames THEN content[1] ELSE ""

\* check_is_command_message(bot, message): ctx.valid
check_is_command_message(m) == CommandOf(m.content) # ""

\* the int converter of set_verbosity's argument
LevelOf(t) == CASE t = "1" -> 1 [] t = "2" -> 2 [] t = "3" -> 3 [] OTHER -> 5

\* content.replace(f"<@{user.id}>", f"@{user.name}") and the same for <@!id>, for
\* every user of message.mentions
ReplaceMentions(content, mentions) ==
    [p \in DOMAIN content |->
        IF \E id \in Range(mentions) : content[p] \in MentionTokens(id)
        THEN "@" \o Name(CHOOSE id \in Range(mentions) : content[p] \in MentionTokens(id))
        ELSE content[p]]

\* new_member_in_general
new_member_in_general(m) == m.channel = GeneralChannel /\ m.type = "new_member"

\* one message sent by the bot
Sent(kind, text) == [kind |-> kind, text |-> text]

\* one finished outbound call: how many attempts were made and whether it succeeded
Call(op, attempts, ok) == [op |-> op, attempts |-> attempts, ok |-> ok]

\* the locals of an invocation of on_message that is not running
Idle ==
    [pc |-> "idle", msg |-> Message("1", <<>>, "c1", "default"),
     is_bot_message |-> FALSE, is_command_message |-> FALSE,
     clem_is_disabled |-> FALSE, is_karma_only |-> FALSE,
     karma_changes |-> EmptyDict, todo |-> <<>>, new_karma |-> 0, attempts |-> 0,
     chat_history |-> <<>>, verbosity_level |-> MENTIONED, should_respond |-> FALSE,
     bot_response |-> <<>>,
     \* history of the invocation: the messages it sent, the outbound calls it
     \* finished, the users whose turn of the karma loop ran, and the channel's
     \* settings document and the karma index when it began
     out |-> <<>>, calls |-> <<>>, updated |-> {}, settings |-> NoneVal,
     karma_before |-> EmptyDict,
     \* whether a persistence call of the last update_karma failed, and whether the
     \* invocation went on to store_message and process_commands
     karma_failed |-> FALSE, dispatched |-> FALSE,
     \* the other invocations for the same channel that were suspended in
     \* respond_to_chat when this one fetched its chat history
     racing |-> {}]

Handlers == {1, 2}

Finished(i) == h[i].pc \in {"idle", "done", "raised"}

\* is_clementine_council(): the predicate of the check
is_clementine_council(author) == author \in Council

\* toggle_clem(ctx): <<channels afterwards, messages afterwards, messages sent>>
toggle_clem(chans, msgs, m, f) ==
    LET channel == get_channel_config(chans, m.channel, f.cr)
        current_state == channel # NoneVal /\ channel.disabled
        new_state == ~current_state
    IN <<update_channel_config(chans, m.channel, [disabled |-> new_state], f.ur, f.uw),
         msgs,
         <<Sent("command", IF new_state THEN <<"Clem has been disabled">>
                           ELSE <<"Clem has been enabled">>)>> >>

\* set_verbosity storing whatever level it is given
set_verbosityMutNoValidation(chans, msgs, m, level, f) ==
    <<update_channel_config(chans, m.channel, [verbosity_level |-> level], f.ur, f.uw),
      msgs,
      <<Sent("command", <<"verbosity level has been set">>)>> >>

\* set_verbosity(ctx, level)
set_verbosity(chans, msgs, m, level, f) ==
    IF level \notin {1, 2, 3}
    THEN <<chans, msgs, <<Sent("command", <<"Invalid verbosity level">>)>> >>
    ELSE <<update_channel_config(chans, m.channel, [verbosity_level |-> level], f.ur, f.uw),
           msgs,
           <<Sent("command", <<"verbosity level has been set">>)>> >>

\* reset_chat(ctx)
reset_chat(chans, msgs, m, f) ==
    LET r == delete_channel_messages(msgs, m.channel, f.dw)
    IN <<chans, r[1],
         <<Sent("command", IF r[2] THEN <<"Chat history has been reset">>
                           ELSE <<"An error occurred while resetting">>)>> >>

\* the limit message_count passes to get_channel_messages
CountLimit == 1000

\* message_count(ctx)
message_count(chans, msgs, m, f) ==
    LET messages == get_channel_messages(msgs, m.channel, CountLimit, f.hr)
    IN <<chans, msgs,
         <<Sent("command", <<"This channel has n stored messages">>)>>
         \o (IF messages # {<<>>} THEN <<Sent("command", <<"Latest stored message">>)>>
             ELSE <<>>)>>

\* process_commands invoking the command without the check of the role
process_commandsMutNoCheck(chans, msgs, m, f) ==
    LET cmd == CommandOf(m.content)
    IN IF m.author = BotId \/ cmd = "" THEN <<chans, msgs, <<>>>>
       ELSE CASE cmd = "!toggle_clem" -> toggle_clem(chans, msgs, m, f)
              [] cmd = "!set_verbosity" -> set_verbosity(chans, msgs, m, LevelOf(m.content[3]), f)
              [] cmd = "!reset_chat" -> reset_chat(chans, msgs, m, f)
              [] OTHER -> message_count(chans, msgs, m, f)

\* bot.process_commands(message), with the check of the command and on_command_error
process_commands(chans, msgs, m, f) ==
    LET cmd == CommandOf(m.content)
    IN IF m.author = BotId \/ cmd = "" THEN <<chans, msgs, <<>>>>
       ELSE IF ~is_clementine_council(m.author)
       THEN <<chans, msgs, <<Sent("command", <<"You don't have permission">>)>> >>
       ELSE CASE cmd = "!toggle_clem" -> toggle_clem(chans, msgs, m, f)
              [] cmd = "!set_verbosity" -> set_verbosity(chans, msgs, m, LevelOf(m.content[3]), f)
              [] cmd = "!reset_chat" -> reset_chat(chans, msgs, m, f)
              [] OTHER -> message_count(chans, msgs, m, f)

\* should_respond, from the verbosity level read and the message
ShouldRespond(verbosity_level, m) ==
    IF verbosity_level = UNRESTRICTED THEN TRUE
    ELSE IF verbosity_level = MENTIONED
         THEN mentioned_in(m) \/ ContainsClem(m.content)
         ELSE FALSE

\* next(msg for msg in reversed(chat_history) if ...), None if there is none:
\* the entry at the greatest of the positions `at`
LastWhere(chat_history, at) ==
    IF at = {} THEN NoneVal
    ELSE chat_history[CHOOSE k \in at : \A j \in at : j <= k]

last_user_message(chat_history) ==
    LastWhere(chat_history,
              {k \in DOMAIN chat_history : chat_history[k].author # Name(BotId)})

last_bot_message(chat_history) ==
    LastWhere(chat_history,
              {k \in DOMAIN chat_history : chat_history[k].author = Name(BotId)})

\* the repetition check comparing the last user message case-sensitively
NotRepetitiveMutExactUser(chat_history, bot_response) ==
    LET lu == last_user_message(chat_history)
        lb == last_bot_message(chat_history)
    IN /\ (lu = NoneVal \/ lu.content # bot_response)
       /\ (lb = NoneVal \/ lb.content # bot_response)

\* the condition under which on_message sends bot_response
NotRepetitive(chat_history, bot_response) ==
    LET lu == last_user_message(chat_history)
        lb == last_bot_message(chat_history)
    IN /\ (lu = NoneVal \/ Lower(lu.content) # Lower(bot_response))
       /\ (lb = NoneVal \/ lb.content # bot_response)

\* what an outbound call can come back with
Failure == [ok |-> FALSE, text |-> <<>>]
ChatOutcomes == {[ok |-> TRUE, text |-> t] : t \in Responses} \cup {Failure}
TextOutcomes == {[ok |-> TRUE, text |-> <<"hi">>], Failure}

\* on_message up to the karma loop: the flags, the settings reads, process_karma
Receive(i, m, f) ==
    /\ Finished(i)
    /\ events < MaxEvents
    /\ events' = events + 1
    /\ LET clem_is_disabled == clem_disabled(channels_index, m.channel, f.r1)
           karma_changes == process_karma(m.content, m.mentions)
       IN h' = [h EXCEPT ![i] =
                [Idle EXCEPT
                    !.pc = IF DOMAIN karma_changes # {} /\ ~clem_is_disabled
                           THEN "karma" ELSE "store",
                    !.msg = m,
                    !.is_bot_message = (m.author = BotId),
                    !.is_command_message = check_is_command_message(m),
                    !.clem_is_disabled = clem_is_disabled,
                    !.is_karma_only = karma_only(channels_index, m.channel, f.r2),
                    !.karma_changes = karma_changes,
                    !.todo = SelectSeq(m.mentions, LAMBDA id : id \in DOMAIN karma_changes),
                    !.settings = get_channel_config(channels_index, m.channel, TRUE),
                    !.karma_before = karma_index]]
    /\ UNCHANGED <<karma_index, channels_index, messages_index, applied, pk>>

\* KarmaApply adding the change to the total on_message read when it began, not
\* to the total stored now
KarmaApplyMutStaleRead(i, f) ==
    /\ h[i].pc = "karma"
    /\ LET user == Head(h[i].todo)
           change == h[i].karma_changes[user]
           r == update_user_karma(h[i].karma_before, user, change, f.kr, f.kw)
       IN /\ karma_index' = Upsert(karma_index, user, r[2])
          /\ applied' = [applied EXCEPT ![user] = @ + change]
          /\ h' = [h EXCEPT ![i].pc = "karma_llm", ![i].new_karma = r[2],
                            ![i].attempts = 0, ![i].updated = @ \cup {user},
                            ![i].karma_failed = ~(f.kr /\ f.kw)]
    /\ UNCHANGED <<channels_index, messages_index, events, pk>>

\* one turn of the karma loop up to the call of respond_to_karma:
\* new_karma = update_karma(user.id, change)
KarmaApply(i, f) ==
    /\ h[i].pc = "karma"
    /\ LET user == Head(h[i].todo)
           change == h[i].karma_changes[user]
           r == update_user_karma(karma_index, user, change, f.kr, f.kw)
       IN /\ karma_index' = r[1]
          /\ applied' = [applied EXCEPT ![user] = @ + change]
          /\ h' = [h EXCEPT ![i].pc = "karma_llm", ![i].new_karma = r[2],
                            ![i].attempts = 0, ![i].updated = @ \cup {user},
                            ![i].karma_failed = ~(f.kr /\ f.kw)]
    /\ UNCHANGED <<channels_index, messages_index, events, pk>>

\* KarmaAttempt with the retry wrapped around the ledger update as well: a failed
\* attempt applies the delta once more
KarmaAttemptMutReapply(i, o) ==
    /\ h[i].pc = "karma_llm"
    /\ LET n == h[i].attempts + 1
           rest == Tail(h[i].todo)
           user == Head(h[i].todo)
           again == update_user_karma(karma_index, user, h[i].karma_changes[user], TRUE, TRUE)
       IN /\ h' = [h EXCEPT ![i] =
                IF o.ok
                THEN [@ EXCEPT !.attempts = n, !.todo = rest,
                               !.pc = IF rest = <<>> THEN "store" ELSE "karma",
                               !.out = Append(@, Sent("karma", o.text)),
                               !.calls = Append(@, Call("respond_to_karma", n, TRUE))]
                ELSE IF n >= MaxAttempts
                THEN [@ EXCEPT !.attempts = n, !.pc = "raised",
                               !.calls = Append(@, Call("respond_to_karma", n, FALSE))]
                ELSE [@ EXCEPT !.attempts = n]]
          /\ karma_index' = IF o.ok \/ n >= MaxAttempts THEN karma_index ELSE again[1]
    /\ UNCHANGED <<channels_index, messages_index, events, applied, pk>>

\* one attempt of respond_to_karma under @retry(stop_after_attempt(3)); on success
\* the announcement is sent, after the last failure RetryError leaves on_message
KarmaAttempt(i, o) ==
    /\ h[i].pc = "karma_llm"
    /\ LET n == h[i].attempts + 1
           rest == Tail(h[i].todo)
       IN h' = [h EXCEPT ![i] =
                IF o.ok
                THEN [@ EXCEPT !.attempts = n, !.todo = rest,
                               !.pc = IF rest = <<>> THEN "store" ELSE "karma",
                               !.out = Append(@, Sent("karma", o.text)),
                               !.calls = Append(@, Call("respond_to_karma", n, TRUE))]
                ELSE IF n >= MaxAttempts
                THEN [@ EXCEPT !.attempts = n, !.pc = "raised",
                               !.calls = Append(@, Call("respond_to_karma", n, FALSE))]
                ELSE [@ EXCEPT !.attempts = n]]
    /\ UNCHANGED <<karma_index, channels_index, messages_index, events, applied, pk>>

\* StoreAndDispatch without is_bot_message among the early_return_conditions
StoreAndDispatchMutNoBotCheck(i, f, tick) ==
    /\ h[i].pc = "store"
    /\ LET m == h[i].msg
           content == ReplaceMentions(m.content, m.mentions)
           model == IF h[i].is_bot_message THEN MODEL ELSE NoModel
           stored == store_message(messages_index, Name(m.author), content,
                                   m.channel, model,
                                   NewestTimestamp(messages_index) + tick, f.sw)
           c == process_commands(channels_index, stored, m, f)
           early_return_conditions ==
               \/ h[i].clem_is_disabled
               \/ h[i].is_karma_only
               \/ h[i].is_command_message
           verbosity_level == get_verbosity_level(c[1], m.channel, f.r3)
           should_respond == ShouldRespond(verbosity_level, m)
       IN /\ channels_index' = c[1]
          /\ messages_index' = c[2]
          /\ \E chat_history \in get_channel_messages(c[2], m.channel, HistoryLimit, f.hr) :
               h' = [h EXCEPT ![i] =
                [(IF early_return_conditions \/ new_member_in_general(m)
                  THEN [@ EXCEPT !.pc = "done", !.out = @ \o c[3]]
                  ELSE IF extract_video_id(m.content)
                  THEN [@ EXCEPT !.pc = "video_http", !.out = @ \o c[3]]
                  ELSE IF extract_url(m.content)
                  THEN [@ EXCEPT !.pc = "web_http", !.attempts = 0, !.out = @ \o c[3]]
                  ELSE [@ EXCEPT !.pc = IF should_respond THEN "chat_llm" ELSE "done",
                                 !.attempts = 0,
                                 !.chat_history = chat_history,
                                 !.verbosity_level = verbosity_level,
                                 !.should_respond = should_respond,
                                 !.out = @ \o c[3]])
                 EXCEPT !.dispatched = TRUE,
                        !.racing = {j \in Handlers \ {i} :
                                       /\ h[j].pc = "chat_llm"
                                       /\ h[j].msg.channel = m.channel}]]
    /\ UNCHANGED <<karma_index, events, applied, pk>>

\* store_message, process_commands, the early return, the links, the history
\* fetch and should_respond: on_message from the end of the karma loop to its next
\* awaited outbound call; tick is the number of whole seconds the clock has gone
\* on since the newest stored message
StoreAndDispatch(i, f, tick) ==
    /\ h[i].pc = "store"
    /\ LET m == h[i].msg
           content == ReplaceMentions(m.content, m.mentions)
           model == IF h[i].is_bot_message THEN MODEL ELSE NoModel
           stored == store_message(messages_index, Name(m.author), content,
                                   m.channel, model,
                                   NewestTimestamp(messages_index) + tick, f.sw)
           c == process_commands(channels_index, stored, m, f)
           early_return_conditions ==
               \/ h[i].is_bot_message
               \/ h[i].clem_is_disabled
               \/ h[i].is_karma_only
               \/ h[i].is_command_message
           verbosity_level == get_verbosity_level(c[1], m.channel, f.r3)
           should_respond == ShouldRespond(verbosity_level, m)
       IN /\ channels_index' = c[1]
          /\ messages_index' = c[2]
          /\ \E chat_history \in get_channel_messages(c[2], m.channel, HistoryLimit, f.hr) :
               h' = [h EXCEPT ![i] =
                [(IF early_return_conditions \/ new_member_in_general(m)
                  THEN [@ EXCEPT !.pc = "done", !.out = @ \o c[3]]
                  ELSE IF extract_video_id(m.content)
                  THEN [@ EXCEPT !.pc = "video_http", !.out = @ \o c[3]]
                  ELSE IF extract_url(m.content)
                  THEN [@ EXCEPT !.pc = "web_http", !.attempts = 0, !.out = @ \o c[3]]
                  ELSE [@ EXCEPT !.pc = IF should_respond THEN "chat_llm" ELSE "done",
                                 !.attempts = 0,
                                 !.chat_history = chat_history,
                                 !.verbosity_level = verbosity_level,
                                 !.should_respond = should_respond,
                                 !.out = @ \o c[3]])
                 EXCEPT !.dispatched = TRUE,
                        !.racing = {j \in Handlers \ {i} :
                                       /\ h[j].pc = "chat_llm"
                                       /\ h[j].msg.channel = m.channel}]]
    /\ UNCHANGED <<karma_index, events, applied, pk>>

\* get_video_summary up to summarize_youtube_video: the transcript request; every
\* exception is caught inside the function, which then returns None
VideoTranscript(i, res) ==
    /\ h[i].pc = "video_http"
    /\ h' = [h EXCEPT ![i] =
             IF res = "ok"
             THEN [@ EXCEPT !.pc = "video_llm", !.attempts = 0,
                            !.calls = Append(@, Call("transcript", 1, TRUE))]
             ELSE [@ EXCEPT !.pc = "done",
                            !.calls = Append(@, Call("transcript", 1, res # "error"))]]
    /\ UNCHANGED <<karma_index, channels_index, messages_index, events, applied, pk>>

\* one attempt of summarize_youtube_video under @retry; get_video_summary catches
\* the RetryError and returns None
VideoSummarize(i, o) ==
    /\ h[i].pc = "video_llm"
    /\ LET n == h[i].attempts + 1
       IN h' = [h EXCEPT ![i] =
                IF o.ok
                THEN [@ EXCEPT !.attempts = n, !.pc = "done",
                               !.out = Append(@, Sent("summary", o.text)),
                               !.calls = Append(@, Call("summarize_youtube_video", n, TRUE))]
                ELSE IF n >= MaxAttempts
                THEN [@ EXCEPT !.attempts = n, !.pc = "done",
                               !.calls = Append(@, Call("summarize_youtube_video", n, FALSE))]
                ELSE [@ EXCEPT !.attempts = n]]
    /\ UNCHANGED <<karma_index, channels_index, messages_index, events, applied, pk>>

\* one attempt of get_web_summary under @retry; after the last failure RetryError
\* leaves on_message
WebSummary(i, o) ==
    /\ h[i].pc = "web_http"
    /\ LET n == h[i].attempts + 1
       IN h' = [h EXCEPT ![i] =
                IF o.ok
                THEN [@ EXCEPT !.attempts = n, !.pc = "done",
                               !.out = Append(@, Sent("summary", o.text)),
                               !.calls = Append(@, Call("get_web_summary", n, TRUE))]
                ELSE IF n >= MaxAttempts
                THEN [@ EXCEPT !.attempts = n, !.pc = "raised",
                               !.calls = Append(@, Call("get_web_summary", n, FALSE))]
                ELSE [@ EXCEPT !.attempts = n]]
    /\ UNCHANGED <<karma_index, channels_index, messages_index, events, applied, pk>>

\* one attempt of respond_to_chat under @retry; on success the repetition check
\* and the send, after the last failure the error is logged and on_message returns
ChatAttempt(i, o) ==
    /\ h[i].pc = "chat_llm"
    /\ LET n == h[i].attempts + 1
       IN h' = [h EXCEPT ![i] =
                IF o.ok
                THEN [@ EXCEPT !.attempts = n, !.pc = "done",
                               !.bot_response = o.text,
                               !.out = IF NotRepetitive(h[i].chat_history, o.text)
                                       THEN Append(@, Sent("chat", o.text)) ELSE @,
                               !.calls = Append(@, Call("respond_to_chat", n, TRUE))]
                ELSE IF n >= MaxAttempts
                THEN [@ EXCEPT !.attempts = n, !.pc = "done",
                               !.calls = Append(@, Call("respond_to_chat", n, FALSE))]
                ELSE [@ EXCEPT !.attempts = n]]
    /\ UNCHANGED <<karma_index, channels_index, messages_index, events, applied, pk>>

\* --------------------------------------------------------- specifications
InitStores ==
    /\ karma_index = EmptyDict
    /\ channels_index = EmptyDict
    /\ messages_index = <<>>
    /\ h = [i \in Handlers |-> Idle]
    /\ events = 0
    /\ applied = [id \in AllIds |-> 0]

Init == InitStores /\ pk = PkIdle

\* the host delivers one message event at a time, more than a second after the
\* last one was stored, and the persistence calls succeed
Next ==
    \/ \E m \in Events : Receive(1, m, AllOk)
    \/ KarmaApply(1, AllOk)
    \/ \E o \in TextOutcomes : KarmaAttempt(1, o)
    \/ StoreAndDispatch(1, AllOk, 1)
    \/ \E res \in {"ok", "empty", "error"} : VideoTranscript(1, res)
    \/ \E o \in TextOutcomes : VideoSummarize(1, o)
    \/ \E o \in TextOutcomes : WebSummary(1, o)
    \/ \E o \in ChatOutcomes : ChatAttempt(1, o)

Spec == Init /\ [][Next]_vars

\* process_karma on its own, over every content of at most MaxLen tokens
InitKarma ==
    /\ InitStores
    /\ pk \in [content : PkContents, mentions : PkMentions,
               result : {EmptyDict}, done : {FALSE}]

NextKarma == ExtractKarma

SpecKarma == InitKarma /\ [][NextKarma]_vars

\* the persistence calls StoreAndDispatch makes for message m
CallsFor(m) ==
    LET cmd == CommandOf(m.content)
    IN {"sw"} \cup
       (IF m.author = BotId THEN {}
        ELSE IF cmd = "" THEN {"hr", "r3"}
        ELSE IF ~is_clementine_council(m.author) THEN {}
        ELSE IF cmd = "!toggle_clem" THEN {"cr", "ur", "uw"}
        ELSE IF cmd = "!set_verbosity" THEN {"ur", "uw"}
        ELSE IF cmd = "!reset_chat" THEN {"dw"}
        ELSE {"hr"})

\* as Spec, and every persistence call may fail
NextFault ==
    \/ \E m \in Events, f \in FaultsOn({"r1", "r2"}) : Receive(1, m, f)
    \/ \E f \in FaultsOn({"kr", "kw"}) : KarmaApply(1, f)
    \/ \E o \in TextOutcomes : KarmaAttempt(1, o)
    \/ \E f \in FaultsOn(CallsFor(h[1].msg)) : StoreAndDispatch(1, f, 1)
    \/ \E res \in {"ok", "empty", "error"} : VideoTranscript(1, res)
    \/ \E o \in TextOutcomes : VideoSummarize(1, o)
    \/ \E o \in TextOutcomes : WebSummary(1, o)
    \/ \E o \in ChatOutcomes : ChatAttempt(1, o)

SpecFault == Init /\ [][NextFault]_vars

\* as Spec, and the calls on the message index (store_message,
\* get_channel_messages) may fail
NextStoreFault ==
    \/ \E m \in Events : Receive(1, m, AllOk)
    \/ KarmaApply(1, AllOk)
    \/ \E o \in TextOutcomes : KarmaAttempt(1, o)
    \/ \E f \in FaultsOn(CallsFor(h[1].msg) \cap {"sw", "hr"}) : StoreAndDispatch(1, f, 1)
    \/ \E res \in {"ok", "empty", "error"} : VideoTranscript(1, res)
    \/ \E o \in TextOutcomes : VideoSummarize(1, o)
    \/ \E o \in TextOutcomes : WebSummary(1, o)
    \/ \E o \in ChatOutcomes : ChatAttempt(1, o)

SpecStoreFault == Init /\ [][NextStoreFault]_vars

\* as Spec, and a message may be stored in the second of the one stored before it
NextClock ==
    \/ \E m \in Events : Receive(1, m, AllOk)
    \/ KarmaApply(1, AllOk)
    \/ \E o \in TextOutcomes : KarmaAttempt(1, o)
    \/ \E tick \in {0, 1} : StoreAndDispatch(1, AllOk, tick)
    \/ \E res \in {"ok", "empty", "error"} : VideoTranscript(1, res)
    \/ \E o \in TextOutcomes : VideoSummarize(1, o)
    \/ \E o \in TextOutcomes : WebSummary(1, o)
    \/ \E o \in ChatOutcomes : ChatAttempt(1, o)

SpecClock == Init /\ [][NextClock]_vars

\* as Spec, and the calls on the karma index (the search of get_user_karma, the
\* add_documents of update_user_karma) may fail
NextKarmaFault ==
    \/ \E m \in Events : Receive(1, m, AllOk)
    \/ \E f \in FaultsOn({"kr", "kw"}) : KarmaApply(1, f)
    \/ \E o \in TextOutcomes : KarmaAttempt(1, o)
    \/ StoreAndDispatch(1, AllOk, 1)
    \/ \E res \in {"ok", "empty", "error"} : VideoTranscript(1, res)
    \/ \E o \in TextOutcomes : VideoSummarize(1, o)
    \/ \E o \in TextOutcomes : WebSummary(1, o)
    \/ \E o \in ChatOutcomes : ChatAttempt(1, o)

SpecKarmaFault == Init /\ [][NextKarmaFault]_vars

\* the settings documents update_channel_config can have written
SettingsDocs == [disabled : BOOLEAN, verbosity_level : {KARMA_ONLY, MENTIONED, UNRESTRICTED}]

\* the contents the channels index can have: a document for some of the channels
ChannelSettings == UNION {[cs -> SettingsDocs] : cs \in SUBSET Channels}

\* the stores with the channels index in any of its states
InitSettings ==
    /\ karma_index = EmptyDict
    /\ channels_index \in ChannelSettings
    /\ messages_index = <<>>
    /\ h = [i \in Handlers |-> Idle]
    /\ events = 0
    /\ applied = [id \in AllIds |-> 0]
    /\ pk = PkIdle

\* the bot's own messages with every kind of content, and messages of a user that
\* get a reply or a summary
BotEvents ==
    {Message(BotId, c, "c1", "default") : c \in ChatContents \cup Responses}
    \cup {Message("1", c, "c1", "default") :
             c \in {<<"CLEM">>, <<"http://a.b">>, <<"youtu.be/v">>}}

\* every state of the settings of the channel of BotEvents
InitBot == InitSettings /\ DOMAIN channels_index \subseteq {"c1"}

\* as Spec, for the messages BotEvents
NextBot ==
    \/ \E m \in BotEvents : Receive(1, m, AllOk)
    \/ KarmaApply(1, AllOk)
    \/ \E o \in TextOutcomes : KarmaAttempt(1, o)
    \/ StoreAndDispatch(1, AllOk, 1)
    \/ \E res \in {"ok", "empty", "error"} : VideoTranscript(1, res)
    \/ \E o \in TextOutcomes : VideoSummarize(1, o)
    \/ \E o \in TextOutcomes : WebSummary(1, o)
    \/ \E o \in ChatOutcomes : ChatAttempt(1, o)

SpecBot == InitBot /\ [][NextBot]_vars

\* the commands of a council member that write the channel settings
ConfigEvents ==
    {Message("1", c, ch, "default") :
        c \in {<<"!toggle_clem">>, <<"!set_verbosity", " ", "1">>,
               <<"!set_verbosity", " ", "3">>, <<"!set_verbosity", " ", "5">>},
        ch \in Channels}

\* the commands ConfigEvents from every state of the channel settings; the searches
\* of get_channel_config made by toggle_clem and by update_channel_config may fail
NextConfigFault ==
    \/ \E m \in ConfigEvents : Receive(1, m, AllOk)
    \/ \E f \in FaultsOn(CallsFor(h[1].msg) \cap {"cr", "ur"}) : StoreAndDispatch(1, f, 1)

SpecConfigFault == InitSettings /\ [][NextConfigFault]_vars

\* ------------------------------------------------- main.py (dataset tables)
\* here karma_index is the table karma, channels_index the table channels and
\* messages_index the table messages, its rows in the order of their timestamps

\* _limit=100 of the history query
MainLimit == 100

\* channel and channel.get(field, False) for the row of the channel, as a truth value
MainFlag(idx, channel_id, field) == channel_id \in DOMAIN idx /\ idx[channel_id][field]

\* update_karma(user_id, change): <<table afterwards, returned total>>
update_karma(idx, user_id, change) ==
    IF user_id \in DOMAIN idx
    THEN <<[idx EXCEPT ![user_id] = @ + change], idx[user_id] + change>>
    ELSE <<Upsert(idx, user_id, change), change>>

\* the row on_message inserts; datetime.now(UTC) is later than every stored
\* timestamp
MainRow(author, content, channel_id, timestamp, is_bot_message) ==
    LET row == [author |-> Name(author), author_id |-> author, content |-> content,
                timestamp |-> timestamp, channel_id |-> channel_id]
    IN IF is_bot_message
       THEN [f \in DOMAIN row \cup {"model"} |-> IF f = "model" THEN MODEL ELSE row[f]]
       ELSE row

\* messages_table.find(channel_id=channel_id, order_by=["timestamp"], _limit=100)
MainHistory(idx, channel_id) == FirstN(ChannelDocs(idx, channel_id), MainLimit)

\* what respond_to_chat can come back with: a ModelResponse or a failure
MainChatOutcomes ==
    {[ok |-> TRUE, will_respond |-> w, text |-> <<"hi">>] : w \in BOOLEAN}
    \cup {[ok |-> FALSE, will_respond |-> FALSE, text |-> <<>>]}

\* on_message up to the karma loop
MainReceive(i, m) ==
    /\ Finished(i)
    /\ events < MaxEvents
    /\ events' = events + 1
    /\ LET clem_is_disabled == MainFlag(channels_index, m.channel, "disabled")
           karma_changes == process_karma(m.content, m.mentions)
       IN h' = [h EXCEPT ![i] =
                [Idle EXCEPT
                    !.pc = IF DOMAIN karma_changes # {} /\ ~clem_is_disabled
                           THEN "karma" ELSE "store",
                    !.msg = m,
                    !.is_bot_message = (m.author = BotId),
                    !.is_command_message = check_is_command_message(m),
                    !.clem_is_disabled = clem_is_disabled,
                    !.is_karma_only = MainFlag(channels_index, m.channel, "karma_only"),
                    !.karma_changes = karma_changes,
                    !.todo = SelectSeq(m.mentions, LAMBDA id : id \in DOMAIN karma_changes),
                    !.karma_before = karma_index]]
    /\ UNCHANGED <<karma_index, channels_index, messages_index, applied, pk>>

\* the first turn of the karma loop up to the call of respond_to_karma
MainKarmaApply(i) ==
    /\ h[i].pc = "karma"
    /\ LET user == Head(h[i].todo)
           change == h[i].karma_changes[user]
           r == update_karma(karma_index, user, change)
       IN /\ karma_index' = r[1]
          /\ applied' = [applied EXCEPT ![user] = @ + change]
          /\ h' = [h EXCEPT ![i].pc = "karma_llm", ![i].new_karma = r[2],
                            ![i].attempts = 0, ![i].updated = @ \cup {user}]
    /\ UNCHANGED <<channels_index, messages_index, events, pk>>

\* one attempt of respond_to_karma under @retry; on success
\* `return await message.channel.send(karma_response)` ends on_message inside the
\* loop, after the last failure RetryError leaves on_message
MainKarmaAttempt(i, o) ==
    /\ h[i].pc = "karma_llm"
    /\ LET n == h[i].attempts + 1
       IN h' = [h EXCEPT ![i] =
                IF o.ok
                THEN [@ EXCEPT !.attempts = n, !.todo = Tail(@), !.pc = "done",
                               !.out = Append(@, Sent("karma", o.text)),
                               !.calls = Append(@, Call("respond_to_karma", n, TRUE))]
                ELSE IF n >= MaxAttempts
                THEN [@ EXCEPT !.attempts = n, !.pc = "raised",
                               !.calls = Append(@, Call("respond_to_karma", n, FALSE))]
                ELSE [@ EXCEPT !.attempts = n]]
    /\ UNCHANGED <<karma_index, channels_index, messages_index, events, applied, pk>>

\* the insert of the row, process_commands (the messages MainEvents invoke no
\* command), the early return and the history query
MainStoreAndDispatch(i) ==
    /\ h[i].pc = "store"
    /\ LET m == h[i].msg
           stored == Append(messages_index,
                            MainRow(m.author, m.content, m.channel,
                                    NewestTimestamp(messages_index) + 1,
                                    h[i].is_bot_message))
       IN /\ messages_index' = stored
          /\ h' = [h EXCEPT ![i] =
                IF \/ h[i].is_bot_message
                   \/ h[i].clem_is_disabled
                   \/ h[i].is_karma_only
                   \/ h[i].is_command_message
                THEN [@ EXCEPT !.pc = "done", !.dispatched = TRUE]
                ELSE [@ EXCEPT !.pc = "chat_llm", !.attempts = 0, !.dispatched = TRUE,
                               !.chat_history = MainHistory(stored, m.channel)]]
    /\ UNCHANGED <<karma_index, channels_index, events, applied, pk>>

\* one attempt of respond_to_chat under @retry; the response is sent if
\* will_respond, after the last failure the error is logged
MainChatAttempt(i, o) ==
    /\ h[i].pc = "chat_llm"
    /\ LET n == h[i].attempts + 1
       IN h' = [h EXCEPT ![i] =
                IF o.ok
                THEN [@ EXCEPT !.attempts = n, !.pc = "done",
                               !.bot_response = o.text,
                               !.out = IF o.will_respond
                                       THEN Append(@, Sent("chat", o.text)) ELSE @,
                               !.calls = Append(@, Call("respond_to_chat", n, TRUE))]
                ELSE IF n >= MaxAttempts
                THEN [@ EXCEPT !.attempts = n, !.pc = "done",
                               !.calls = Append(@, Call("respond_to_chat", n, FALSE))]
                ELSE [@ EXCEPT !.attempts = n]]
    /\ UNCHANGED <<karma_index, channels_index, messages_index, events, applied, pk>>

\* the rows of n earlier messages of channel c1
MainBacklog(n) == [k \in 1..n |-> MainRow("2", <<"HI">>, "c1", k, FALSE)]

\* the rows toggle_clem and toggle_karma_only can have written for a channel
MainChannelRows == [disabled : BOOLEAN, karma_only : BOOLEAN]

\* the tables at the start: c1 without a row in channels and with a backlog of
\* fewer than, one fewer than or exactly MainLimit messages
InitMain ==
    /\ karma_index = EmptyDict
    /\ channels_index \in {EmptyDict} \cup {[c \in {"c2"} |-> row] : row \in MainChannelRows}
    /\ messages_index \in {MainBacklog(n) : n \in {0, MainLimit - 1, MainLimit}}
    /\ h = [i \in Handlers |-> Idle]
    /\ events = 0
    /\ applied = [id \in AllIds |-> 0]
    /\ pk = PkIdle

\* the message events of the main.py runs
MainEvents ==
    {Message(a, c, ch, "default") :
        a \in UserIds,
        c \in {<<"hi">>, <<"<@0>", " ", "hi">>, <<"<@1>", " ", "-", "-">>,
               <<"<@1>", " ", "+", "+", "+", "+", " ", "<@!2>", " ", "-", "-">>},
        ch \in Channels}
    \cup {Message(BotId, <<"hi">>, ch, "default") : ch \in Channels}

NextMain ==
    \/ \E m \in MainEvents : MainReceive(1, m)
    \/ MainKarmaApply(1)
    \/ \E o \in TextOutcomes : MainKarmaAttempt(1, o)
    \/ MainStoreAndDispatch(1)
    \/ \E o \in MainChatOutcomes : MainChatAttempt(1, o)

SpecMain == InitMain /\ [][NextMain]_vars

\* ------------------------------------- src/clem/discord.py (PocketBase)
\* here channels_index is the collection channels and messages_index the collection
\* messages, its records in the order of their field created

\* per_page of the history query
PbLimit == 100

\* the id PocketBase gave the discord_users record of a user: user.id, the value
\* of the relation field author of the user's messages
PbUserRecord(id) == CASE id = "0" -> "rec0" [] id = "1" -> "rec1" [] OTHER -> "rec2"

\* the record pb.collection("messages").create stores
PbMessageRecord(author, content, channel, is_bot_message) ==
    [author |-> PbUserRecord(author), content |-> content, channel |-> channel,
     model |-> IF is_bot_message THEN MODEL ELSE NoModel]

\* the channel record on_message creates for a channel without one
PbNewChannel == [disabled |-> FALSE, verbosity_level |-> MENTIONED]

\* get_list(1, 100, filter channel = channel.id, sort -created).items, reversed
PbHistory(idx, channel) ==
    Reverse(FirstN(Reverse(SelectSeq(idx, LAMBDA d : d.channel = channel)), PbLimit))

\* next(msg for msg in reversed(chat_history) if msg.author != bot.user.name)
Pb_last_user_message(chat_history) ==
    LastWhere(chat_history,
              {k \in DOMAIN chat_history : chat_history[k].author # Name(BotId)})

\* next(msg for msg in reversed(chat_history) if msg.author == bot.user.name)
Pb_last_bot_message(chat_history) ==
    LastWhere(chat_history,
              {k \in DOMAIN chat_history : chat_history[k].author = Name(BotId)})

\* the condition under which on_message sends bot_response
PbNotRepetitive(chat_history, bot_response) ==
    LET lu == Pb_last_user_message(chat_history)
        lb == Pb_last_bot_message(chat_history)
    IN /\ (lu = NoneVal \/ Lower(lu.content) # Lower(bot_response))
       /\ (lb = NoneVal \/ lb.content # bot_response)

\* "++" in message.content or "--" in message.content
is_karmic_message(content) ==
    \E p \in DOMAIN content :
        p < Len(content) /\ IsSign(content[p]) /\ content[p + 1] = content[p]

\* on_message up to the karma loop; the messages PbEvents hold no karma run, so
\* karma_changes is empty and the loop does not run
PbReceive(i, m) ==
    /\ Finished(i)
    /\ events < MaxEvents
    /\ process_karma(m.content, m.mentions) = EmptyDict
    /\ events' = events + 1
    /\ h' = [h EXCEPT ![i] =
             [Idle EXCEPT
                 !.pc = "store",
                 !.msg = m,
                 !.is_bot_message = (m.author = BotId),
                 !.is_command_message = check_is_command_message(m),
                 !.clem_is_disabled = clem_disabled(channels_index, m.channel, TRUE),
                 !.is_karma_only = karma_only(channels_index, m.channel, TRUE),
                 !.settings = get_channel_config(channels_index, m.channel, TRUE)]]
    /\ UNCHANGED <<karma_index, channels_index, messages_index, applied, pk>>

\* the channel record created with the defaults if there is none, the message
\* record, process_commands (the messages PbEvents invoke no command), the early
\* return, the history query and should_respond
PbStoreAndDispatch(i) ==
    /\ h[i].pc = "store"
    /\ LET m == h[i].msg
           content == ReplaceMentions(m.content, m.mentions)
           chans == IF m.channel \in DOMAIN channels_index THEN channels_index
                    ELSE Upsert(channels_index, m.channel, PbNewChannel)
           stored == Append(messages_index,
                            PbMessageRecord(m.author, content, m.channel,
                                            h[i].is_bot_message))
           early_return_conditions ==
               \/ h[i].is_bot_message
               \/ h[i].clem_is_disabled
               \/ h[i].is_karma_only
               \/ h[i].is_command_message
               \/ is_karmic_message(m.content)
           verbosity_level == get_verbosity_level(chans, m.channel, TRUE)
           should_respond == ShouldRespond(verbosity_level, m)
       IN /\ channels_index' = chans
          /\ messages_index' = stored
          /\ h' = [h EXCEPT ![i] =
                IF early_return_conditions \/ new_member_in_general(m)
                THEN [@ EXCEPT !.pc = "done", !.dispatched = TRUE]
                ELSE [@ EXCEPT !.pc = IF should_respond THEN "chat_llm" ELSE "done",
                               !.attempts = 0,
                               !.chat_history = PbHistory(stored, m.channel),
                               !.verbosity_level = verbosity_level,
                               !.should_respond = should_respond,
                               !.dispatched = TRUE]]
    /\ UNCHANGED <<karma_index, events, applied, pk>>

\* one attempt of respond_to_chat under @retry; on success the repetition check
\* and the send, after the last failure the error is logged and on_message returns
PbChatAttempt(i, o) ==
    /\ h[i].pc = "chat_llm"
    /\ LET n == h[i].attempts + 1
       IN h' = [h EXCEPT ![i] =
                IF o.ok
                THEN [@ EXCEPT !.attempts = n, !.pc = "done",
                               !.bot_response = o.text,
                               !.out = IF PbNotRepetitive(h[i].chat_history, o.text)
                                       THEN Append(@, Sent("chat", o.text)) ELSE @,
                               !.calls = Append(@, Call("respond_to_chat", n, TRUE))]
                ELSE IF n >= MaxAttempts
                THEN [@ EXCEPT !.attempts = n, !.pc = "done",
                               !.calls = Append(@, Call("respond_to_chat", n, FALSE))]
                ELSE [@ EXCEPT !.attempts = n]]
    /\ UNCHANGED <<karma_index, channels_index, messages_index, events, applied, pk>>

\* messages of the bot and of users without a karma run, a command or a link
PbEvents ==
    {Message(a, c, ch, "default") :
        a \in UserIds, c \in {<<"hi">>, <<"CLEM">>, <<"<@0>", " ", "hi">>}, ch \in Channels}
    \cup {Message(BotId, c, ch, "default") : c \in Responses, ch \in Channels}

NextPb ==
    \/ \E m \in PbEvents : PbReceive(1, m)
    \/ PbStoreAndDispatch(1)
    \/ \E o \in ChatOutcomes : PbChatAttempt(1, o)

SpecPb == InitBot /\ [][NextPb]_vars

\* ------------------------------------------- interleaved invocations
\* messages of one channel that get a chat reply, and the bot's own messages
ConcChatEvents ==
    {Message("1", c, "c1", "default") : c \in {<<"CLEM">>, <<"<@0>", " ", "hi">>}}
    \cup {Message("2", <<"CLEM">>, ch, "default") : ch \in Channels}
    \cup {Message(BotId, c, "c1", "default") : c \in Responses}

\* two invocations of on_message at a time: the event loop runs another handler
\* while one is suspended in an awaited call
NextConcChat ==
    \E i \in Handlers :
        \/ \E m \in ConcChatEvents : Receive(i, m, AllOk)
        \/ StoreAndDispatch(i, AllOk, 1)
        \/ \E o \in ChatOutcomes : ChatAttempt(i, o)

SpecConcChat == Init /\ [][NextConcChat]_vars

\* messages that change the karma of the same users and get no reply
ConcKarmaEvents ==
    { Message("2", <<"<@1>", " ", "-", "-">>, "c1", "default"),
      Message("1", <<"<@1>", " ", "+", "+", "+", "+", " ", "<@!2>", " ", "-", "-">>,
              "c1", "default") }

\* two invocations of on_message at a time, for the messages ConcKarmaEvents
NextConcKarma ==
    \E i \in Handlers :
        \/ \E m \in ConcKarmaEvents : Receive(i, m, AllOk)
        \/ KarmaApply(i, AllOk)
        \/ \E o \in TextOutcomes : KarmaAttempt(i, o)
        \/ StoreAndDispatch(i, AllOk, 1)

SpecConcKarma == Init /\ [][NextConcKarma]_vars

\* ------------------------------------------------------------------ claims
\* the occurrences the claims about process_karma speak of: a mention token of id
\* at position p, whitespace at every position between p and s, a sign at s
Occurrence(content, id, p, s) ==
    /\ content[p] \in MentionTokens(id)
    /\ s >= p + 2
    /\ \A q \in (p + 1)..(s - 1) : IsSpace(content[q])
    /\ IsSign(content[s])

Occurrences(content, id) ==
    {ps \in (DOMAIN content) \X (DOMAIN content) : Occurrence(content, id, ps[1], ps[2])}

\* the length of the maximal run of the one character content[s] that starts at s
RECURSIVE RunLength(_, _)
RunLength(content, s) ==
    IF s < Len(content) /\ content[s + 1] = content[s]
    THEN 1 + RunLength(content, s + 1) ELSE 1

\* +floor(k/2) for a run of k '+', -floor(k/2) for a run of k '-'
RunDelta(content, s) ==
    IF content[s] = "-" THEN -(RunLength(content, s) \div 2)
    ELSE RunLength(content, s) \div 2

RECURSIVE SumOver(_, _)
SumOver(content, occ) ==
    IF occ = {} THEN 0
    ELSE LET ps == CHOOSE x \in occ : TRUE
         IN RunDelta(content, ps[2]) + SumOver(content, occ \ {ps})

\* C1: the delta process_karma returns for a user is the sum, over the occurrences
\* of the user's mention token followed by whitespace and a run of k '+' or k '-',
\* of +floor(k/2) resp. -floor(k/2)
C1_DeltaIsSumOfRuns ==
    pk.done =>
        \A id \in DOMAIN pk.result :
            pk.result[id] = SumOver(pk.content, Occurrences(pk.content, id))

\* C2: the users in the returned mapping are exactly the mentioned users with a
\* matching run; a mentioned user without one is absent, and a user whose only
\* matching run is a lone '+' or '-' is present with value 0
C2_PresentIffRun ==
    pk.done =>
        /\ DOMAIN pk.result =
              {id \in Range(pk.mentions) : Occurrences(pk.content, id) # {}}
        /\ \A id \in Range(pk.mentions) :
              \A ps \in Occurrences(pk.content, id) :
                 ( /\ Occurrences(pk.content, id) = {ps}
                   /\ (ps[2] = Len(pk.content) \/ ~IsSign(pk.content[ps[2] + 1])) )
                 => (id \in DOMAIN pk.result /\ pk.result[id] = 0)

\* both users are mentioned, user 1 has a lone sign and is mapped to 0, user 2 has
\* no run and is absent
C2_Witness ==
    /\ pk.done
    /\ pk.mentions = <<"1", "2">>
    /\ pk.content = <<"<@!2>", "+", "<@1>", " ", "-">>
    /\ DOMAIN pk.result = {"1"}
    /\ pk.result["1"] = 0

\* C3: the stored total of every user is the sum of the changes applied to the
\* user (0 without a document), and update_user_karma returns the new total
C3_LedgerIsSumOfDeltas ==
    /\ \A id \in AllIds :
          (IF id \in DOMAIN karma_index THEN karma_index[id] ELSE 0) = applied[id]
    /\ \A i \in Handlers :
          h[i].pc = "karma_llm" => h[i].new_karma = applied[Head(h[i].todo)]

\* user 1 was given +2 by one message and -1 by another, user 2 -1
C3_Witness ==
    /\ DOMAIN karma_index = {"1", "2"}
    /\ karma_index["1"] = 1
    /\ karma_index["2"] = -1
    /\ h[1].pc = "karma_llm"
    /\ h[1].new_karma = 1

\* the settings the channel of invocation i held when the invocation began
Began(i) == h[i].pc # "idle"
WasDisabled(i) == h[i].settings # NoneVal /\ h[i].settings.disabled
LevelWas(i) ==
    IF h[i].settings # NoneVal THEN h[i].settings.verbosity_level ELSE MENTIONED

\* the kinds of the messages invocation i has sent
KindsSent(i) == {h[i].out[k].kind : k \in DOMAIN h[i].out}

Requested(i) ==
    \/ h[i].pc = "chat_llm"
    \/ \E k \in DOMAIN h[i].calls : h[i].calls[k].op = "respond_to_chat"

\* the message of invocation i is ordinary chat input in an enabled channel: not
\* written by the bot, no command, no join notice, no link
ChatInput(i) ==
    /\ ~WasDisabled(i)
    /\ h[i].msg.author # BotId
    /\ ~check_is_command_message(h[i].msg)
    /\ h[i].msg.type # "new_member"
    /\ ~extract_video_id(h[i].msg.content)
    /\ ~extract_url(h[i].msg.content)

\* C5: at MENTIONED, chat input in an enabled channel makes on_message call
\* respond_to_chat if and only if the bot is mentioned or the text contains "clem"
C5_MentionedRespondsIffAddressed ==
    \A i \in Handlers :
        (Began(i) /\ Finished(i) /\ LevelWas(i) = MENTIONED /\ ChatInput(i)) =>
            (Requested(i) <=> (mentioned_in(h[i].msg) \/ ContainsClem(h[i].msg.content)))

\* C6: at KARMA_ONLY in an enabled channel on_message sends no chat reply and no
\* summary, and every karma delta of the message is applied to the ledger and
\* announced (unless the generation of that announcement failed MaxAttempts times)
C6_KarmaOnlyStillAppliesKarma ==
    \A i \in Handlers :
        (Began(i) /\ Finished(i) /\ LevelWas(i) = KARMA_ONLY /\ ~WasDisabled(i)) =>
            /\ KindsSent(i) \cap {"chat", "summary"} = {}
            /\ h[i].updated = DOMAIN h[i].karma_changes
            /\ Cardinality({k \in DOMAIN h[i].calls :
                               h[i].calls[k].op = "respond_to_karma"})
                  = Cardinality(DOMAIN h[i].karma_changes)

\* C7: at UNRESTRICTED, every chat input in an enabled channel makes on_message
\* call respond_to_chat
C7_UnrestrictedAlwaysResponds ==
    \A i \in Handlers :
        (Began(i) /\ Finished(i) /\ LevelWas(i) = UNRESTRICTED /\ ChatInput(i)) =>
            Requested(i)

\* the settings document a channel has by default
DefaultSettings == [disabled |-> FALSE, verbosity_level |-> MENTIONED]

\* invocation i has evaluated should_respond
Decided(i) ==
    /\ h[i].pc \in {"chat_llm", "done"}
    /\ ~h[i].is_command_message
    /\ ChatInput(i)
    /\ ~new_member_in_general(h[i].msg)

\* C8: without a settings document for the channel, the karma gate, the early
\* return flags and the reply decision of on_message are those it takes with a
\* document holding disabled = false and verbosity_level = MENTIONED
C8_AbsentIsDefault ==
    \A i \in Handlers :
        (Began(i) /\ h[i].settings = NoneVal) =>
            LET ch == h[i].msg.channel
                idx == Upsert(EmptyDict, ch, DefaultSettings)
            IN /\ h[i].clem_is_disabled = clem_disabled(idx, ch, TRUE)
               /\ h[i].is_karma_only = karma_only(idx, ch, TRUE)
               /\ Decided(i) =>
                     /\ h[i].verbosity_level = get_verbosity_level(idx, ch, TRUE)
                     /\ h[i].should_respond =
                           ShouldRespond(get_verbosity_level(idx, ch, TRUE), h[i].msg)

\* in a channel without a settings document, a message that does not address the
\* bot got no reply request and one that does got one
C8_Witness ==
    /\ h[1].settings = NoneVal
    /\ channels_index = EmptyDict
    /\ Decided(1)
    /\ h[1].pc = "chat_llm"
    /\ h[1].msg.content = <<"CLEM">>
    /\ events = 2
    /\ Len(messages_index) = 2
    /\ messages_index[1].content = <<"hi">>
    /\ messages_index[1].channel_id = h[1].msg.channel

\* the newest entry of the history with (bot = TRUE) or without (bot = FALSE) the
\* bot as its author is at position k
NewestOf(chat_history, k, bot) ==
    /\ (chat_history[k].author = Name(BotId)) = bot
    /\ \A j \in (k + 1)..Len(chat_history) :
          (chat_history[j].author = Name(BotId)) # bot

\* invocation i has received a reply from respond_to_chat
Replied(i) ==
    /\ h[i].pc = "done"
    /\ \E k \in DOMAIN h[i].calls :
          h[i].calls[k].op = "respond_to_chat" /\ h[i].calls[k].ok

\* C9: the generated reply is sent if and only if it differs, ignoring letter case,
\* from the newest history entry not written by the bot and differs exactly from
\* the newest entry written by the bot; a missing entry does not suppress
C9_SentIffNotEcho ==
    \A i \in Handlers :
        Replied(i) =>
            LET hist == h[i].chat_history
                r == h[i].bot_response
                userEcho == \E k \in DOMAIN hist :
                                /\ NewestOf(hist, k, FALSE)
                                /\ Lower(hist[k].content) = Lower(r)
                botEcho == \E k \in DOMAIN hist :
                                /\ NewestOf(hist, k, TRUE)
                                /\ hist[k].content = r
            IN ("chat" \in KindsSent(i)) <=> (~userEcho /\ ~botEcho)

\* the reply "hi" was sent although the newest bot entry is "HI", and the history
\* held a user entry that differs from it
C9_Witness ==
    /\ Replied(1)
    /\ h[1].bot_response = <<"hi">>
    /\ h[1].out = <<Sent("chat", <<"hi">>)>>
    /\ Len(h[1].chat_history) = 2
    /\ h[1].chat_history[1].author = Name(BotId)
    /\ h[1].chat_history[1].content = <<"HI">>
    /\ h[1].chat_history[2].content = <<"CLEM">>

\* the kind of message an outbound call produces
KindOf(op) ==
    CASE op = "respond_to_karma" -> "karma"
      [] op = "respond_to_chat" -> "chat"
      [] OTHER -> "summary"

\* C10: every outbound call that fails is attempted again until it succeeds or
\* MaxAttempts attempts were made, never more, and a call that failed produces no
\* message
C10_FailedCallsAreRetried ==
    \A i \in Handlers :
        /\ h[i].attempts <= MaxAttempts
        /\ \A k \in DOMAIN h[i].calls :
              /\ h[i].calls[k].attempts <= MaxAttempts
              /\ ~h[i].calls[k].ok => h[i].calls[k].attempts = MaxAttempts
        /\ \A kind \in {"karma", "chat", "summary"} :
              Cardinality({k \in DOMAIN h[i].out : h[i].out[k].kind = kind})
                 <= Cardinality({k \in DOMAIN h[i].calls :
                                   /\ KindOf(h[i].calls[k].op) = kind
                                   /\ h[i].calls[k].op # "transcript"
                                   /\ h[i].calls[k].ok})

\* C11: an invocation whose karma loop has run, whether or not an update of the
\* ledger or the generation of an announcement failed in it, goes on to store the
\* message and to process it as a command
C11_KarmaFailureDoesNotAbort ==
    \A i \in Handlers :
        (Began(i) /\ Finished(i) /\ h[i].updated # {}) => h[i].dispatched

\* C12: no failure of an outbound call of on_message leaves the handler as an
\* exception: every invocation ends by returning
C12_NoFailureLeavesHandler ==
    \A i \in Handlers :
        /\ h[i].pc # "raised"
        /\ \A k \in DOMAIN h[i].calls :
              (~h[i].calls[k].ok /\ k = Len(h[i].calls)) => h[i].pc = "done"

\* invocation i runs the step that stores its message and processes it as a command
Dispatches(i) == h[i].pc = "store" /\ h'[i].pc # "store"

\* the message index after on_message has stored the message of the step, before
\* any command has run: the index before with one document appended
OnlyOwnMessageStored ==
    /\ Len(messages_index') = Len(messages_index) + 1
    /\ SubSeq(messages_index', 1, Len(messages_index)) = messages_index

\* C13: set_verbosity with a level outside {1,2,3} changes no record, creates none
\* and sends one validation error; with a level in {1,2,3} the channel's stored
\* verbosity_level afterwards is that level
C13_VerbosityValidated ==
    [][\A i \in Handlers :
          ( /\ Dispatches(i)
            /\ CommandOf(h[i].msg.content) = "!set_verbosity"
            /\ is_clementine_council(h[i].msg.author) ) =>
              LET level == LevelOf(h[i].msg.content[3])
                  ch == h[i].msg.channel
              IN IF level \in {1, 2, 3}
                 THEN /\ ch \in DOMAIN channels_index'
                      /\ channels_index'[ch].verbosity_level = level
                 ELSE /\ channels_index' = channels_index
                      /\ karma_index' = karma_index
                      /\ OnlyOwnMessageStored
                      /\ h'[i].out = h[i].out
                            \o <<Sent("command", <<"Invalid verbosity level">>)>>
      ]_vars

\* set_verbosity 5 was answered with the validation error in a channel whose level
\* had been set to 3, and the level is still 3
C13_Witness ==
    /\ h[1].pc = "done"
    /\ h[1].msg.content = <<"!set_verbosity", " ", "5">>
    /\ h[1].out = <<Sent("command", <<"Invalid verbosity level">>)>>
    /\ DOMAIN channels_index = {h[1].msg.channel}
    /\ channels_index[h[1].msg.channel].verbosity_level = UNRESTRICTED

\* C14: a command invoked by a member without the role "Clementine Council" does not
\* run: settings, karma and the stored messages are as the command found them, and
\* the one message sent is the denial
C14_NonCouncilDenied ==
    [][\A i \in Handlers :
          ( /\ Dispatches(i)
            /\ CommandOf(h[i].msg.content) # ""
            /\ h[i].msg.author # BotId
            /\ ~is_clementine_council(h[i].msg.author) ) =>
              /\ channels_index' = channels_index
              /\ karma_index' = karma_index
              /\ OnlyOwnMessageStored
              /\ h'[i].out = h[i].out \o <<Sent("command", <<"You don't have permission">>)>>
      ]_vars

\* user 2, who is not in the council, invoked reset_chat in a channel with a stored
\* message: the message is still stored and the denial was sent
C14_Witness ==
    /\ h[1].pc = "done"
    /\ h[1].msg.author = "2"
    /\ h[1].msg.content = <<"!reset_chat">>
    /\ h[1].out = <<Sent("command", <<"You don't have permission">>)>>
    /\ Len(messages_index) = 2
    /\ messages_index[1].channel_id = h[1].msg.channel
    /\ messages_index[1].content = <<"hi">>

\* the messages invocation i has sent from a command or from on_command_error
CommandReplies(i) == {k \in DOMAIN h[i].out : h[i].out[k].kind = "command"}

\* C15: an invocation of toggle_clem, set_verbosity, reset_chat or message_count
\* sends exactly one message to the channel
C15_OneMessagePerCommand ==
    \A i \in Handlers :
        ( /\ h[i].dispatched
          /\ h[i].is_command_message
          /\ ~h[i].is_bot_message ) =>
            Cardinality(CommandReplies(i)) = 1

\* the stored total of a user, 0 without a document
TotalOf(idx, user) == IF user \in DOMAIN idx THEN idx[user] ELSE 0

\* C16: however often the generation of an announcement is attempted, the stored
\* total of every user of the message reflects the user's delta once if the user's
\* turn of the karma loop has run, and not at all otherwise
C16_RetryDoesNotReapply ==
    \A i \in Handlers :
        Began(i) =>
            \A user \in AllIds :
                TotalOf(karma_index, user) =
                    TotalOf(h[i].karma_before, user)
                    + (IF user \in h[i].updated THEN h[i].karma_changes[user] ELSE 0)

\* the announcement for user 1's delta +2 succeeded at the third attempt and the
\* stored total is 2
C16_Witness ==
    /\ h[1].karma_before = EmptyDict
    /\ h[1].updated = {"1"}
    /\ h[1].karma_changes["1"] = 2
    /\ \E k \in DOMAIN h[1].calls :
          h[1].calls[k] = Call("respond_to_karma", MaxAttempts, TRUE)
    /\ TotalOf(karma_index, "1") = 2

\* C17: the context passed to respond_to_chat is the min(HistoryLimit, n) most
\* recently stored messages of the channel of the message, of no other channel,
\* oldest first
C17_ContextIsNewestOfChannel ==
    \A i \in Handlers :
        h[i].pc = "chat_llm" =>
            h[i].chat_history =
                LastN(ChannelDocs(messages_index, h[i].msg.channel), HistoryLimit)

\* C18: a join notice in the general channel gets no chat reply and no summary and
\* is not among the stored messages
C18_JoinNoticeIsNoChatInput ==
    \A i \in Handlers :
        (h[i].dispatched /\ new_member_in_general(h[i].msg)) =>
            /\ KindsSent(i) \cap {"chat", "summary"} = {}
            /\ ~\E k \in DOMAIN messages_index :
                  /\ messages_index[k].channel_id = h[i].msg.channel
                  /\ messages_index[k].author = Name(h[i].msg.author)
                  /\ messages_index[k].content = h[i].msg.content

\* the confirmation of reset_chat
ResetConfirmed == Sent("command", <<"Chat history has been reset">>)

C20_FailedKarmaUpdateIsNoOp ==
    \A i \in Handlers :
        (h[i].pc = "karma_llm" /\ h[i].karma_failed) =>
            TotalOf(karma_index, Head(h[i].todo)) =
                TotalOf(h[i].karma_before, Head(h[i].todo))

\* C21: a stored message document carries the field model if and only if its author
\* is the bot itself, and then the field names the language model; the documents
\* of every other author have no field model
C21_ModelIffBotAuthor ==
    \A k \in DOMAIN messages_index :
        LET doc == messages_index[k]
        IN /\ ("model" \in DOMAIN doc) <=> (doc.author = Name(BotId))
           /\ ("model" \in DOMAIN doc) => doc.model = MODEL

\* a message of the bot and a message of a user are both stored
C21_Witness ==
    /\ \E k \in DOMAIN messages_index :
          messages_index[k].author = Name(BotId) /\ "model" \in DOMAIN messages_index[k]
    /\ \E k \in DOMAIN messages_index :
          messages_index[k].author = Name("1") /\ "model" \notin DOMAIN messages_index[k]

\* C23: for a user whose mention token occurs once followed by whitespace and a run
\* of k equal signs that is immediately followed by the other sign, the delta is
\* +floor(k/2) for a run of '+' and -floor(k/2) for a run of '-': the signs after
\* the run do not add to its length
C23_RunIsOfOneCharacter ==
    pk.done =>
        \A id \in DOMAIN pk.result :
            \A ps \in Occurrences(pk.content, id) :
                LET e == ps[2] + RunLength(pk.content, ps[2])
                IN (/\ Occurrences(pk.content, id) = {ps}
                    /\ e <= Len(pk.content)
                    /\ IsSign(pk.content[e]))
                   => pk.result[id] = RunDelta(pk.content, ps[2])

\* C30: at verbosity MENTIONED in an enabled channel, a message of a user that is no
\* command, does not mention the bot and does not contain "clem" makes the bot send
\* nothing but karma announcements, whether or not it holds a link
C30_UnaddressedGetsNoReply ==
    \A i \in Handlers :
        (/\ Began(i)
         /\ h[i].msg.author # BotId
         /\ ~WasDisabled(i)
         /\ LevelWas(i) = MENTIONED
         /\ ~check_is_command_message(h[i].msg)
         /\ ~mentioned_in(h[i].msg)
         /\ ~ContainsClem(h[i].msg.content))
        => KindsSent(i) \subseteq {"karma"}

\* C29: an invocation of on_message for a message of the bot itself sends no chat
\* reply and no summary and makes no call for one, whatever the channel's settings
\* and the content of the message
C29_NoReplyToOwnMessage ==
    \A i \in Handlers :
        (Began(i) /\ h[i].msg.author = BotId) =>
            /\ KindsSent(i) \cap {"chat", "summary"} = {}
            /\ h[i].pc \notin {"video_http", "video_llm", "web_http", "chat_llm"}
            /\ \A k \in DOMAIN h[i].calls : h[i].calls[k].op = "respond_to_karma"

\* a message of the bot that names it and one that holds a link were handled to the
\* end in an enabled channel at UNRESTRICTED
C29_Witness ==
    /\ h[1].pc = "done"
    /\ h[1].dispatched
    /\ h[1].msg.author = BotId
    /\ extract_url(h[1].msg.content)
    /\ h[1].settings = [disabled |-> FALSE, verbosity_level |-> UNRESTRICTED]
    /\ \E k \in DOMAIN messages_index :
          /\ messages_index[k].author = Name(BotId)
          /\ messages_index[k].channel_id = h[1].msg.channel
          /\ messages_index[k].content = <<"@Clem", " ", "hi">>

\* the settings in force for a channel: its document, the defaults without one
SettingsOf(idx, ch) == IF ch \in DOMAIN idx THEN idx[ch] ELSE DefaultSettings

\* C24: whatever the settings before and whether or not the reads of the current
\* settings succeed, toggle_clem negates the disabled flag of its channel and leaves
\* the channel's verbosity_level as it was, set_verbosity changes verbosity_level
\* only and leaves disabled as it was, and neither changes another channel
C24_CommandsChangeOneField ==
    [][\A i \in Handlers :
          ( /\ Dispatches(i)
            /\ is_clementine_council(h[i].msg.author) ) =>
              LET cmd == CommandOf(h[i].msg.content)
                  ch == h[i].msg.channel
                  old == SettingsOf(channels_index, ch)
                  new == SettingsOf(channels_index', ch)
              IN /\ \A c \in Channels \ {ch} :
                        SettingsOf(channels_index', c) = SettingsOf(channels_index, c)
                 /\ cmd = "!toggle_clem" =>
                        /\ new.disabled = ~old.disabled
                        /\ new.verbosity_level = old.verbosity_level
                 /\ cmd = "!set_verbosity" => new.disabled = old.disabled
      ]_vars

\* the karma announcements invocation i has sent
KarmaReplies(i) == {k \in DOMAIN h[i].out : h[i].out[k].kind = "karma"}

\* C22: when on_message has returned for a message of an enabled channel whose
\* karma mapping holds several users, the ledger update ran for every user of the
\* mapping, each total is the one before plus the user's delta, and one
\* announcement was sent per user
C22_EveryUserOfTheMappingHandled ==
    \A i \in Handlers :
        (/\ h[i].pc = "done"
         /\ ~h[i].clem_is_disabled
         /\ Cardinality(DOMAIN h[i].karma_changes) > 1)
        => /\ h[i].updated = DOMAIN h[i].karma_changes
           /\ \A user \in DOMAIN h[i].karma_changes :
                 TotalOf(karma_index, user)
                    = TotalOf(h[i].karma_before, user) + h[i].karma_changes[user]
           /\ Cardinality(KarmaReplies(i)) = Cardinality(DOMAIN h[i].karma_changes)

\* C26: in main.py the chat history handed to respond_to_chat is the MainLimit most
\* recent rows of the channel, oldest first, and so ends with the message handled
C26_MainContextIsMostRecent ==
    \A i \in Handlers :
        h[i].pc = "chat_llm" =>
            /\ h[i].chat_history
                  = LastN(ChannelDocs(messages_index, h[i].msg.channel), MainLimit)
            /\ h[i].chat_history[Len(h[i].chat_history)].content = h[i].msg.content

\* C25: in the PocketBase version a generated reply equal to the content of the
\* newest entry of the fetched history written by the bot, the entries naming their
\* author by the discord_users record stored with them, is not sent
C25_PbBotEchoSuppressed ==
    \A i \in Handlers :
        Replied(i) =>
            LET hist == h[i].chat_history
                bots == {k \in DOMAIN hist : hist[k].author = PbUserRecord(BotId)}
            IN (/\ bots # {}
                /\ LastWhere(hist, bots).content = h[i].bot_response)
               => "chat" \notin KindsSent(i)

\* the chat replies invocation i has sent
ChatReplies(i) == {h[i].out[k].text : k \in {k \in DOMAIN h[i].out : h[i].out[k].kind = "chat"}}

\* C27: of two invocations for the same channel of which one fetched its history
\* while the other was suspended in respond_to_chat, the two never send chat
\* replies of the same text
C27_NoRepetitionAcrossHandlers ==
    \A i \in Handlers : \A j \in h[i].racing :
        (h[j].msg.channel = h[i].msg.channel) =>
            ChatReplies(i) \cap ChatReplies(j) = {}

\* the delta invocation i has applied to a user
DeltaOf(i, user) == IF user \in h[i].updated THEN h[i].karma_changes[user] ELSE 0

====
